---- MODULE Spec2Model ----
(***************************************************************************)
(* Model of examples/v10/lib/middleware.ts: the error code table, the      *)
(* chain builder pipedResolver().middlewares, the zod() validation         *)
(* middleware, the contextSwapper() middleware and the isAuthed            *)
(* derivation built on it.                                                  *)
(*                                                                         *)
(* JavaScript values are records: a string s is [str |-> s], a boolean b   *)
(* is [bool |-> b], null and undefined are one-field records of their      *)
(* own, and an object is the record of its own enumerable properties.      *)
(***************************************************************************)
EXTENDS Integers, Sequences, FiniteSets, TLC

VARIABLES
    codes,          \* the run-time object TRPC_ERROR_CODES_BY_KEY
    pc,             \* position of the call in progress
    call,           \* which function the client called
    params,         \* the params object the stage was called with (live object)
    received,       \* its contents at the moment of the call
    collab,         \* the schema (parser) or newContext function (middleware)
    validatorArgs,  \* arguments of the schema.safeParseAsync calls made
    deriveArgs,     \* arguments of the newContext calls made
    result,         \* what the awaited collaborator settled to
    nextArgs,       \* arguments of the params.next calls made
    nextResult,     \* what the promise of params.next settled to
    ret,            \* how the call in progress ended
    chain,          \* middlewares handed to pipe(...)
    resolverResult, \* what the resolver handed to pipe(...) returns
    request,        \* params the client means to invoke the procedure with
    executed        \* stage/resolver executions of the call in progress

vars == <<codes, pc, call, params, received, collab, validatorArgs, deriveArgs,
          result, nextArgs, nextResult, ret, chain, resolverResult, request,
          executed>>

----------------------------------------------------------------------------
(* Bounds *)

MaxStages == 2

----------------------------------------------------------------------------
(* JavaScript values *)

Empty == [f \in {} |-> [str |-> ""]]
Str(s) == [str |-> s]
Bool(b) == [bool |-> b]
Null == [null |-> "null"]
Undefined == [undefined |-> "undefined"]

IsStr(v) == DOMAIN v = {"str"}
Has(o, f) == f \in DOMAIN o
Get(o, f) == IF f \in DOMAIN o THEN o[f] ELSE Undefined
Truthy(v) == v \notin {Undefined, Null, Str(""), Bool(FALSE)}

\* { ...o, ...q }
Spread(o, q) ==
    [f \in DOMAIN o \cup DOMAIN q |-> IF f \in DOMAIN q THEN q[f] ELSE o[f]]

Fault(m) == [fault |-> m]
IsFault(v) == "fault" \in DOMAIN v

Pending == [kind |-> "pending", value |-> Undefined]
Returned(v) == [kind |-> "returned", value |-> v]
Thrown(e) == [kind |-> "thrown", value |-> e]

----------------------------------------------------------------------------
(* Error code table *)

\* the table with UNAUTHORIZED given FORBIDDEN's number
ErrorCodesUnauthorizedAsForbidden ==
    [ PARSE_ERROR           |-> -32700,
      BAD_REQUEST           |-> -32600,
      INTERNAL_SERVER_ERROR |-> -32603,
      UNAUTHORIZED          |-> -32003,
      FORBIDDEN             |-> -32003,
      NOT_FOUND             |-> -32004,
      METHOD_NOT_SUPPORTED  |-> -32005,
      TIMEOUT               |-> -32008,
      PRECONDITION_FAILED   |-> -32012,
      PAYLOAD_TOO_LARGE     |-> -32013,
      CLIENT_CLOSED_REQUEST |-> -32099 ]

TRPC_ERROR_CODES_BY_KEY ==
    [ PARSE_ERROR           |-> -32700,
      BAD_REQUEST           |-> -32600,
      INTERNAL_SERVER_ERROR |-> -32603,
      UNAUTHORIZED          |-> -32001,
      FORBIDDEN             |-> -32003,
      NOT_FOUND             |-> -32004,
      METHOD_NOT_SUPPORTED  |-> -32005,
      TIMEOUT               |-> -32008,
      PRECONDITION_FAILED   |-> -32012,
      PAYLOAD_TOO_LARGE     |-> -32013,
      CLIENT_CLOSED_REQUEST |-> -32099 ]

ErrorCode == DOMAIN TRPC_ERROR_CODES_BY_KEY

----------------------------------------------------------------------------
(* Result shapes *)

middlewareMarker == [symbol |-> "middlewareMarker"]

IsResultSuccess(v) == Has(v, "data") /\ ~Has(v, "error")
IsResultError(v) ==
    /\ Has(v, "error") /\ ~Has(v, "data")
    /\ Has(v.error, "code") /\ IsStr(v.error.code)
    /\ v.error.code.str \in ErrorCode
IsResult(v) == IsResultSuccess(v) \/ IsResultError(v)

MiddlewareOKResult(d) == [marker |-> middlewareMarker, data |-> d]
MiddlewareErrorResult(e) == [marker |-> middlewareMarker, error |-> e]

----------------------------------------------------------------------------
(* Inputs *)

U42 == [id |-> Str("42")]
U7 == [id |-> Str("7")]

TestContext ==
    { Empty, [user |-> Undefined], [user |-> U42],
      [user |-> U7, role |-> Str("admin")] }

RawInputs ==
    { [hello |-> Str("x")], Empty, [hello |-> Str("x"), extra |-> Str("y")],
      [hello |-> Null], Str("raw") }

Params ==
    { Spread(Spread([ctx |-> c], ri), ex) :
        c \in TestContext,
        ri \in {Empty} \cup {[rawInput |-> r] : r \in RawInputs},
        ex \in {Empty, [meta |-> Str("m")], [input |-> Str("old")]} }

NextFn == [fn |-> "next"]

MiddlewareFunctionParams == { Spread(p, [next |-> NextFn]) : p \in Params }

----------------------------------------------------------------------------
(* Collaborators *)

ZodError(m) == [issues |-> Str(m)]
SafeParseSuccess(d) == [success |-> Bool(TRUE), data |-> d]
SafeParseError(e) == [success |-> Bool(FALSE), error |-> e]

Schemas == {"hello", "custom"}

\* The outcomes schema.safeParseAsync(raw) can settle to.  "hello" is
\* z.object({ hello: z.string() }): it accepts an object whose hello is a
\* string and yields the object stripped to that key.  "custom" stands for
\* any other schema: it may accept (with or without a transform), reject the
\* input, or raise a fault from a refinement.
SafeParseOutcomes(schema, raw) ==
    IF schema = "hello"
    THEN IF Has(raw, "hello") /\ IsStr(raw.hello)
         THEN {SafeParseSuccess([hello |-> raw.hello])}
         ELSE {SafeParseError(ZodError("hello: invalid_type"))}
    ELSE {SafeParseSuccess(raw), SafeParseSuccess(Str("transformed")),
          SafeParseError(ZodError("custom")), Fault("validator")}

\* isAuthed without its check of ctx.user
isAuthedUnchecked(p) == [ctx |-> Spread(p.ctx, [user |-> Get(p.ctx, "user")])]

\* isAuthed's newContext function
isAuthed(p) ==
    IF ~Truthy(Get(p.ctx, "user"))
    THEN [error |-> [code |-> Str("UNAUTHORIZED")]]
    ELSE [ctx |-> Spread(p.ctx, [user |-> p.ctx.user])]

Derivations == {"isAuthed", "custom"}

\* The outcomes newContext(params) can settle to.  "custom" stands for any
\* other derivation: a new context, a typed error, or a fault.
DeriveOutcomes(derive, p) ==
    IF derive = "isAuthed"
    THEN {isAuthed(p)}
    ELSE {[ctx |-> [tenant |-> Str("t1")]], [ctx |-> p.ctx],
          [error |-> [code |-> Str("FORBIDDEN"), cause |-> Str("denied")]],
          Fault("derive")}

\* What a call of params.next can settle to: a marked result of the rest of
\* the chain, or a fault of it.
NextOutcomes ==
    { MiddlewareOKResult(Str("ok")),
      MiddlewareOKResult([greeting |-> Str("hello 42")]),
      MiddlewareErrorResult([code |-> Str("INTERNAL_SERVER_ERROR")]),
      Fault("downstream") }

\* Resolvers of the app: one that answers with data, one that fails.
ResolverResults ==
    { [data |-> Str("ok")], [error |-> [code |-> Str("INTERNAL_SERVER_ERROR")]] }

----------------------------------------------------------------------------
(* zod(schema): the parser middleware *)

\* the object parser hands to params.next on a successful parse
ParserNextParams(p, r) ==
    Spread(p, [input |-> r, _input_in |-> Null, _input_out |-> Null])

\* a parser that forwards a second time
ParserForwardTwice(p, r) == << ParserNextParams(p, r), ParserNextParams(p, r) >>

\* the params.next calls parser makes on a successful parse
ParserForward(p, r) == << ParserNextParams(p, r) >>

\* a parser that leaves the validator's error out of its Failure
ParserFailureNoCause(r) == [error |-> [code |-> Str("BAD_REQUEST")]]

\* parser's return value on a failed parse
ParserFailure(r) == [error |-> [code |-> Str("BAD_REQUEST"), cause |-> r.error]]

----------------------------------------------------------------------------
(* contextSwapper()(newContext)(): the context-swap middleware *)

\* a middleware that forwards the new context without spreading params
SwapNextParamsNoSpread(p, r) == [ctx |-> r.ctx, next |-> p.next]

\* the object the middleware hands to params.next on the ctx branch
SwapNextParams(p, r) == Spread(p, [ctx |-> r.ctx])

\* the params.next calls the middleware makes on the ctx branch
SwapForward(p, r) == << SwapNextParams(p, r) >>

----------------------------------------------------------------------------
(* pipedResolver().middlewares: the chain builder *)

middlewares(args) == Thrown(Fault("Unimplemented"))

StageKinds == {"zod", "isAuthed"}

Chains == UNION { [1..n -> StageKinds] : n \in 0..MaxStages }

----------------------------------------------------------------------------
(* State machine *)

Init ==
    /\ codes = TRPC_ERROR_CODES_BY_KEY
    /\ pc = "idle"
    /\ call = "none"
    /\ params = Empty
    /\ received = Empty
    /\ collab = "none"
    /\ validatorArgs = << >>
    /\ deriveArgs = << >>
    /\ result = Undefined
    /\ nextArgs = << >>
    /\ nextResult = Undefined
    /\ ret = Pending
    /\ chain = << >>
    /\ resolverResult = Undefined
    /\ request = Empty
    /\ executed = << >>

\* The client evaluates pipe(stage_1, ..., stage_n, resolver), meaning to
\* invoke the procedure with req.
PipeCall(stages, res, req) ==
    /\ pc = "idle"
    /\ call' = "pipe"
    /\ chain' = stages
    /\ resolverResult' = res
    /\ request' = req
    /\ ret' = middlewares(stages \o << res >>)
    /\ pc' = "done"
    /\ UNCHANGED <<codes, params, received, collab, validatorArgs, deriveArgs,
                   result, nextArgs, nextResult, executed>>

\* parser(params) runs up to its await of schema.safeParseAsync(rawInput).
ParserCall(p, schema) ==
    /\ pc = "idle"
    /\ call' = "parser"
    /\ params' = p
    /\ received' = p
    /\ collab' = schema
    /\ executed' = << [stage |-> "zod", params |-> p] >>
    /\ validatorArgs' = << Get(p, "rawInput") >>
    /\ pc' = "parsing"
    /\ UNCHANGED <<codes, deriveArgs, result, nextArgs, nextResult, ret,
                   chain, resolverResult, request>>

\* safeParseAsync settles and parser runs on: to its params.next call, to its
\* BAD_REQUEST return, or out of the function with the validator's fault.
ParserParsed ==
    /\ pc = "parsing"
    /\ call = "parser"
    /\ \E r \in SafeParseOutcomes(collab, validatorArgs[1]) :
         /\ result' = r
         /\ IF IsFault(r)
            THEN /\ ret' = Thrown(r)
                 /\ pc' = "done"
                 /\ UNCHANGED nextArgs
            ELSE IF Truthy(r.success)
            THEN /\ nextArgs' = nextArgs \o ParserForward(params, r)
                 /\ pc' = "forwarded"
                 /\ UNCHANGED ret
            ELSE /\ ret' = Returned(ParserFailure(r))
                 /\ pc' = "done"
                 /\ UNCHANGED nextArgs
    /\ UNCHANGED <<codes, call, params, received, collab, validatorArgs,
                   deriveArgs, nextResult, chain, resolverResult, request,
                   executed>>

\* middleware(params) runs up to its await of newContext(params).
MiddlewareCall(p, derive) ==
    /\ pc = "idle"
    /\ call' = "middleware"
    /\ params' = p
    /\ received' = p
    /\ collab' = derive
    /\ executed' = << [stage |-> "swap", params |-> p] >>
    /\ deriveArgs' = << p >>
    /\ pc' = "deriving"
    /\ UNCHANGED <<codes, validatorArgs, result, nextArgs, nextResult, ret,
                   chain, resolverResult, request>>

\* newContext settles and the middleware runs on: to its params.next call, to
\* returning the error branch as it is, or out with the derivation's fault.
MiddlewareDerived ==
    /\ pc = "deriving"
    /\ call = "middleware"
    /\ \E r \in DeriveOutcomes(collab, deriveArgs[1]) :
         /\ result' = r
         /\ IF IsFault(r)
            THEN /\ ret' = Thrown(r)
                 /\ pc' = "done"
                 /\ UNCHANGED nextArgs
            ELSE IF Has(r, "ctx")
            THEN /\ nextArgs' = nextArgs \o SwapForward(params, r)
                 /\ pc' = "forwarded"
                 /\ UNCHANGED ret
            ELSE /\ ret' = Returned(r)
                 /\ pc' = "done"
                 /\ UNCHANGED nextArgs
    /\ UNCHANGED <<codes, call, params, received, collab, validatorArgs,
                   deriveArgs, nextResult, chain, resolverResult, request,
                   executed>>

\* The promise params.next returned settles; the stage returned that promise,
\* so the stage's own promise settles the same way.
NextSettled ==
    /\ pc = "forwarded"
    /\ \E o \in NextOutcomes :
         /\ nextResult' = o
         /\ ret' = IF IsFault(o) THEN Thrown(o) ELSE Returned(o)
    /\ pc' = "done"
    /\ UNCHANGED <<codes, call, params, received, collab, validatorArgs,
                   deriveArgs, result, nextArgs, chain, resolverResult,
                   request, executed>>

Next ==
    \/ \E stages \in Chains, res \in ResolverResults, req \in Params :
         PipeCall(stages, res, req)
    \/ \E p \in MiddlewareFunctionParams, schema \in Schemas :
         ParserCall(p, schema)
    \/ ParserParsed
    \/ \E p \in MiddlewareFunctionParams, derive \in Derivations :
         MiddlewareCall(p, derive)
    \/ MiddlewareDerived
    \/ NextSettled

Spec == Init /\ [][Next]_vars

----------------------------------------------------------------------------
(* Properties of the stages *)

ParserSettled ==
    call = "parser" /\ pc \in {"forwarded", "done"} /\ ~IsFault(result)

MiddlewareSettled ==
    call = "middleware" /\ pc \in {"forwarded", "done"} /\ ~IsFault(result)

\* C4: whenever the validator rejects params.rawInput, parser returns a
\* Failure whose code is BAD_REQUEST and whose cause is the validator's error
\* object as it is, and makes no call of next, so nothing downstream runs.
C4_ValidationFailure ==
    (ParserSettled /\ ~Truthy(result.success)) =>
        /\ pc = "done"
        /\ ret = Returned([error |-> [code |-> Str("BAD_REQUEST"),
                                      cause |-> result.error]])
        /\ nextArgs = << >>
        /\ Len(executed) = 1

\* the {hello: string} schema has rejected rawInput {} and parser has returned
C4_Witness ==
    /\ call = "parser" /\ pc = "done" /\ collab = "hello"
    /\ Get(received, "rawInput") = Empty
    /\ ret.kind = "returned"
    /\ ret.value.error.code = Str("BAD_REQUEST")
    /\ ret.value.error.cause = ZodError("hello: invalid_type")

C7_AuthGate ==
    (MiddlewareSettled /\ collab = "isAuthed") =>
        IF ~Truthy(Get(received.ctx, "user"))
        THEN /\ pc = "done"
             /\ ret = Returned([error |-> [code |-> Str("UNAUTHORIZED")]])
             /\ nextArgs = << >>
        ELSE /\ Len(nextArgs) = 1
             /\ Has(nextArgs[1], "ctx")
             /\ Get(nextArgs[1].ctx, "user") = received.ctx.user

\* isAuthed has forwarded the context of user 42
C7_Witness ==
    /\ call = "middleware" /\ collab = "isAuthed" /\ pc = "forwarded"
    /\ received.ctx = [user |-> U42]
    /\ nextArgs[1].ctx.user.id = Str("42")

\* C8: on the ctx branch the context-swap middleware calls next with a new
\* object whose ctx is the derived context and whose every other field is
\* the field of the params it received; the received object is unchanged.
C8_ContextSwapFrame ==
    (MiddlewareSettled /\ Has(result, "ctx")) =>
        /\ Len(nextArgs) = 1
        /\ DOMAIN nextArgs[1] = DOMAIN received \cup {"ctx"}
        /\ nextArgs[1].ctx = result.ctx
        /\ \A f \in DOMAIN received \ {"ctx"} : nextArgs[1][f] = received[f]
        /\ params = received

\* a derivation has replaced the context of params that carry rawInput and
\* the input of an earlier stage
C8_Witness ==
    /\ call = "middleware" /\ pc = "forwarded"
    /\ Has(received, "rawInput") /\ Has(received, "input")
    /\ nextArgs[1].ctx = [tenant |-> Str("t1")]
    /\ nextArgs[1].ctx # received.ctx
    /\ nextArgs[1].input = received.input

\* C9: the error code table maps exactly the eleven names to their fixed
\* numbers, no two names share a number, and no operation changes the table.
C9_ErrorCodeStability ==
    /\ codes = [ PARSE_ERROR           |-> -32700,
                 BAD_REQUEST           |-> -32600,
                 INTERNAL_SERVER_ERROR |-> -32603,
                 UNAUTHORIZED          |-> -32001,
                 FORBIDDEN             |-> -32003,
                 NOT_FOUND             |-> -32004,
                 METHOD_NOT_SUPPORTED  |-> -32005,
                 TIMEOUT               |-> -32008,
                 PRECONDITION_FAILED   |-> -32012,
                 PAYLOAD_TOO_LARGE     |-> -32013,
                 CLIENT_CLOSED_REQUEST |-> -32099 ]
    /\ Cardinality(DOMAIN codes) = 11
    /\ \A a, b \in DOMAIN codes : codes[a] = codes[b] => a = b

\* isAuthed has answered UNAUTHORIZED and the table still gives it -32001
C9_Witness ==
    /\ call = "middleware" /\ pc = "done" /\ ret.kind = "returned"
    /\ Has(ret.value, "error")
    /\ ret.value.error.code = Str("UNAUTHORIZED")
    /\ codes[ret.value.error.code.str] = -32001

\* C3: whenever the validator accepts params.rawInput, parser calls next with
\* params whose input is the validated value itself and whose rawInput has
\* been cleared.
C3_ValidationSuccess ==
    (ParserSettled /\ Truthy(result.success)) =>
        /\ Len(nextArgs) = 1
        /\ Get(nextArgs[1], "input") = result.data
        /\ ~Has(nextArgs[1], "rawInput")

\* C2 (stage part): a fault raised by the validator or by the derivation is
\* caught by the middleware that owns it and returned as a Failure.
CollaboratorFaultNormalized ==
    (call \in {"parser", "middleware"} /\ pc = "done" /\ IsFault(result)) =>
        ret.kind = "returned" /\ IsResultError(ret.value)

----------------------------------------------------------------------------
(* Properties of a built procedure.  What a chain of the app's stages is to *)
(* do with a request is computed from the stages themselves: zod over the  *)
(* {hello: string} schema, and isAuthed.                                    *)

\* one stage as a function of the params it is called with
StageRun(kind, p) ==
    IF kind = "zod"
    THEN LET r == CHOOSE o \in SafeParseOutcomes("hello", Get(p, "rawInput")) : TRUE
         IN  IF Truthy(r.success)
             THEN [forward |-> TRUE, params |-> ParserNextParams(p, r)]
             ELSE [forward |-> FALSE, value |-> ParserFailure(r)]
    ELSE LET r == isAuthed(p)
         IN  IF Has(r, "ctx")
             THEN [forward |-> TRUE, params |-> SwapNextParams(p, r)]
             ELSE [forward |-> FALSE, value |-> r]

RECURSIVE ParamsAt(_)
\* the params position i of the chain is to be called with, every stage
\* before it having forwarded (position Len(chain) + 1 is the resolver)
ParamsAt(i) ==
    IF i = 1
    THEN Spread(request, [next |-> NextFn])
    ELSE StageRun(chain[i - 1], ParamsAt(i - 1)).params

RECURSIVE Reaches(_)
\* every stage before position i forwards
Reaches(i) ==
    i = 1 \/ (Reaches(i - 1) /\ StageRun(chain[i - 1], ParamsAt(i - 1)).forward)

Forwards(i) == Reaches(i) /\ StageRun(chain[i], ParamsAt(i)).forward
ShortCircuits(i) == Reaches(i) /\ ~StageRun(chain[i], ParamsAt(i)).forward

ProcedureDone == call = "pipe" /\ pc = "done"

\* C1: if stage i returns a Failure without calling next, no later stage and
\* no resolver executes, and the procedure returns exactly that Failure.
C1_ShortCircuit ==
    ProcedureDone =>
        \A i \in 1..Len(chain) :
            ShortCircuits(i) =>
                /\ Len(executed) <= i
                /\ ret = Returned(StageRun(chain[i], ParamsAt(i)).value)

\* C2: the caller of a procedure receives a Result, never a thrown fault,
\* and a collaborator's fault is returned by its middleware as a Failure.
C2_NoFaultEscapes ==
    /\ ProcedureDone => (ret.kind = "returned" /\ IsResult(ret.value))
    /\ CollaboratorFaultNormalized

\* C5: if stage i calls next(X), the following stage (the resolver after the
\* last stage) is called with exactly X.
C5_ForwardingExactness ==
    ProcedureDone =>
        \A i \in 1..Len(chain) :
            Forwards(i) =>
                /\ Len(executed) >= i + 1
                /\ executed[i + 1].params = ParamsAt(i + 1)

\* C10 (stage part): what a stage returns is the value its call of next
\* settled to, unaltered, or a Failure built without a call of next; it has
\* exactly one of data and error.
StageReturnDiscipline ==
    (call \in {"parser", "middleware"} /\ pc = "done" /\ ret.kind = "returned") =>
        /\ \/ nextArgs = << >> /\ IsResultError(ret.value)
           \/ Len(nextArgs) = 1 /\ ret.value = nextResult
        /\ IsResult(ret.value)

\* C10: every stage returns what its next settled to or a Failure of its own;
\* so when no stage short-circuits the procedure returns exactly the
\* resolver's Result, and every returned value has one of data and error.
C10_ReturnDiscipline ==
    /\ StageReturnDiscipline
    /\ ProcedureDone =>
         /\ (\A i \in 1..Len(chain) : Forwards(i)) => ret = Returned(resolverResult)
         /\ ret.kind = "returned" => IsResult(ret.value)

====
